---- MODULE Spec2Model ----
(***************************************************************************)
(* Model of the Tikit FastAPI backend: the ticket lifecycle                *)
(* (services/ticket_service.py, TicketService) and the WebSocket           *)
(* connection registry (routers/realtime.py, ConnectionManager).           *)
(*                                                                         *)
(* Ticket lifecycle.  The tables payments, events, event_tiers, tickets    *)
(* and scan_history live in the hosted database.  Every                    *)
(* `self.supabase.table(...)....execute()` is one atomic step; requests    *)
(* are served by independent workers (Procs) against the same database,    *)
(* so the steps of different requests interleave.  A read of a table that  *)
(* no modelled operation writes (payments, events) is taken together with  *)
(* the next read of a table that is written.  The four writes (ticket      *)
(* insert, sold update, ticket update, scan insert) may fail.              *)
(* IssueSpec runs issue_ticket requests, RedeemSpec runs verify_ticket and *)
(* mark_ticket_used requests against tickets issued earlier.               *)
(*                                                                         *)
(* Connection registry.  ConnectionManager lives in one asyncio process:   *)
(* connect (after the accept), disconnect, join_room and leave_room run    *)
(* without a suspension point, a fan-out is suspended at every             *)
(* `await ...send_text(...)`, where other tasks run.  RegistrySpec runs    *)
(* the websocket_endpoint sessions and the room fan-outs.                  *)
(***************************************************************************)
EXTENDS Integers, Sequences, FiniteSets, TLC

\* ------------------------------------------------------------------ bounds
\* Rows the tickets table can hold.
MaxTickets == 2

\* Two workers serve ticket requests at the same time.
Procs == {"w1", "w2"}

None == "none"

\* ------------------------------------------------------- database content
\* Rows of the payments table (read by issue_ticket, never written by it).
payments ==
  [p1 |-> [status |-> "successful", user_id |-> "u1"],
   p2 |-> [status |-> "successful", user_id |-> "u1"],
   p3 |-> [status |-> "pending",    user_id |-> "u1"]]

\* Rows of event_tiers before the first sale (create_event, sold = 0):
\* t1 belongs to event e1, t2 belongs to event e2.
InitialTiers ==
  [t1 |-> [event_id |-> "e1", quantity |-> 1, sold |-> 0],
   t2 |-> [event_id |-> "e2", quantity |-> 1, sold |-> 0]]

\* Request inputs.
PaymentIds == {"p0", "p1", "p2", "p3"}
EventIds == {"e0", "e1"}
TierIds == {"t0", "t1", "t2"}
UserIds == {"u1", "u2"}
QrCodes == {"q1", "q2"}
BackupCodes == {"b1", "b2"}
Agents == {"a1", "a2"}
Locations == {"gate"}

VARIABLES
  events,        \* events table: event id -> row
  event_tiers,   \* event_tiers table: tier id -> row
  tickets,       \* tickets table: row i has id i
  scan_history,  \* scan_history table, in insertion order
  clock,         \* datetime.utcnow(), advanced by each ticket update
  call,          \* per worker: the request in progress and its locals
  response,      \* the value returned by the call that returned last
  issued_ok,     \* tier id -> number of issue_ticket calls that returned success
  redeemed_ok    \* ticket id -> number of mark_ticket_used calls that returned success

\* The connection registry (ConnectionManager, one per server process).
VARIABLES
  active_connections,  \* connection_id -> websocket (the session that registered it)
  user_connections,    \* user_id -> list of connection ids
  room_connections,    \* room_id -> list of connection ids
  session,             \* per websocket: the state of its websocket_endpoint task
  fanout               \* the send_room_message loop in progress

dbvars == <<events, event_tiers, tickets, scan_history, clock>>
tvars == <<events, event_tiers, tickets, scan_history, clock, call, response,
           issued_ok, redeemed_ok>>
regvars == <<active_connections, user_connections, room_connections, session, fanout>>

\* The rate limiter (RateLimitMiddleware, one per server process).
VARIABLES
  redis_url,     \* self.redis_url: None, or the URL of a Redis that is unavailable
  memory_store,  \* self.memory_store: key -> list of timestamps
  now,           \* int(time.time())
  limiter,       \* per request task: the is_rate_limited call in progress and its locals
  limit_info,    \* what the is_rate_limited call that returned last returned
  admitted       \* key -> second -> number of calls admitted with that timestamp

rlvars == <<redis_url, memory_store, now, limiter, limit_info, admitted>>
vars == <<events, event_tiers, tickets, scan_history, clock, call, response,
          issued_ok, redeemed_ok,
          active_connections, user_connections, room_connections, session, fanout,
          redis_url, memory_store, now, limiter, limit_info, admitted>>

\* -------------------------------------------------------------- requests
\* A worker that serves no request.
IdleCall ==
  [op |-> "idle", pc |-> "idle",
   payment_id |-> None, event_id |-> None, tier_id |-> None, user_id |-> None,
   qr_code |-> None, scanned_by |-> None, location |-> None,
   ticket_id |-> 0, tier_sold |-> 0]

\* The returned dict: the error code or message, with the ticket it is about
\* and the key of the request (payment id, QR code or backup code).
Response(op, result, ticket_id, key, history) ==
  [op |-> op, result |-> result, ticket_id |-> ticket_id,
   key |-> key, scan_history |-> history]

\* Worker p returns r to its caller.
Return(p, r) ==
  /\ call' = [call EXCEPT ![p] = IdleCall]
  /\ response' = r

\* Worker p goes on with locals c.
Continue(p, c) ==
  /\ call' = [call EXCEPT ![p] = c]
  /\ UNCHANGED response

IssueError(c, code) == Response("issue", code, 0, c.payment_id, <<>>)
MarkResult(code, ticket_id, qr_code) == Response("redeem", code, ticket_id, qr_code, <<>>)
VerifyResult(message, ticket_id, code, history) ==
  Response("verify", message, ticket_id, code, history)

TicketIds == 1..Len(tickets)

\* ------------------------------------------------------------ issue_ticket
\* A lookup on the wrong column: select id from tickets where qr_code = pid.
ExistingTicketByQr(pid) == {i \in TicketIds : tickets[i].qr_code = pid}

\* Lines 89-91: select id from tickets where payment_id = pid
ExistingTicket(pid) == {i \in TicketIds : tickets[i].payment_id = pid}

\* select * from event_tiers where id = tid and event_id = eid
TierResult(tid, eid) ==
  {t \in DOMAIN event_tiers : t = tid /\ event_tiers[t].event_id = eid}

\* A chain of checks that looks for an existing ticket before it compares
\* the payment's owner.
IssueOutcomeChecksTicketFirst(ticket_data, user_id) ==
  LET pid == ticket_data.payment_id
  IN  IF pid \notin DOMAIN payments THEN "PAYMENT_NOT_FOUND"
      ELSE IF payments[pid].status # "successful" THEN "PAYMENT_NOT_SUCCESSFUL"
      ELSE IF ExistingTicket(pid) # {} THEN "TICKET_ALREADY_EXISTS"
      ELSE IF payments[pid].user_id # user_id THEN "PAYMENT_MISMATCH"
      ELSE IF ticket_data.event_id \notin DOMAIN events THEN "EVENT_NOT_FOUND"
      ELSE "continue"

\* Lines 57-109: the chain of checks before the tier lookup: the error code
\* of the first check that fails, or "continue".
IssueOutcome(ticket_data, user_id) ==
  LET pid == ticket_data.payment_id
  IN  IF pid \notin DOMAIN payments THEN "PAYMENT_NOT_FOUND"
      ELSE IF payments[pid].status # "successful" THEN "PAYMENT_NOT_SUCCESSFUL"
      ELSE IF payments[pid].user_id # user_id THEN "PAYMENT_MISMATCH"
      ELSE IF ExistingTicket(pid) # {} THEN "TICKET_ALREADY_EXISTS"
      ELSE IF ticket_data.event_id \notin DOMAIN events THEN "EVENT_NOT_FOUND"
      ELSE "continue"

\* Lines 53-109: the payment lookup and the three payment checks, the
\* lookup of a ticket for the payment, and the event lookup.
IssueTicket(p, ticket_data, user_id) ==
  /\ call[p].pc = "idle"
  /\ LET c == [IdleCall EXCEPT !.op = "issue",
                               !.payment_id = ticket_data.payment_id,
                               !.event_id = ticket_data.event_id,
                               !.tier_id = ticket_data.tier_id,
                               !.user_id = user_id]
         outcome == IssueOutcome(ticket_data, user_id)
     IN  IF outcome # "continue"
         THEN Return(p, IssueError(c, outcome))
         ELSE Continue(p, [c EXCEPT !.pc = "issue_tier"])
  /\ UNCHANGED <<dbvars, issued_ok, redeemed_ok, regvars, rlvars>>

\* Lines 111-119: the tier must exist and belong to the event; the row read
\* here (tier_result.data[0]) is the one whose sold count is used at line 157.
IssueCheckTier(p) ==
  /\ call[p].pc = "issue_tier"
  /\ IF TierResult(call[p].tier_id, call[p].event_id) = {}
     THEN Return(p, IssueError(call[p], "TIER_NOT_FOUND"))
     ELSE Continue(p, [call[p] EXCEPT !.pc = "issue_insert",
                                      !.tier_sold = event_tiers[call[p].tier_id].sold])
  /\ UNCHANGED <<dbvars, issued_ok, redeemed_ok, regvars, rlvars>>

\* Lines 126-139: the row issue_ticket inserts.
TicketRecord(c, qr_code, backup_code) ==
  [event_id |-> c.event_id, tier_id |-> c.tier_id, user_id |-> c.user_id,
   payment_id |-> c.payment_id, qr_code |-> qr_code, backup_code |-> backup_code,
   status |-> "active", used_at |-> 0, scanned_by |-> None, scan_location |-> None]

\* Lines 121-153: generate the codes (random draws) and insert the ticket;
\* an insert that returns no row or raises ends the call with INTERNAL_ERROR.
IssueInsert(p) ==
  /\ call[p].pc = "issue_insert"
  /\ \/ /\ Len(tickets) < MaxTickets
        /\ \E qr_code \in QrCodes, backup_code \in BackupCodes :
             tickets' = Append(tickets, TicketRecord(call[p], qr_code, backup_code))
        /\ Continue(p, [call[p] EXCEPT !.pc = "issue_sold",
                                       !.ticket_id = Len(tickets) + 1])
     \/ /\ Return(p, IssueError(call[p], "INTERNAL_ERROR"))
        /\ UNCHANGED tickets
  /\ UNCHANGED <<events, event_tiers, scan_history, clock, issued_ok, redeemed_ok, regvars, rlvars>>

\* Line 157: the sold count written back.
NewSoldCount(c) == c.tier_sold + 1

\* Lines 155-171: write the sold count and return success; an update that
\* raises ends the call with INTERNAL_ERROR (lines 173-181).
IssueUpdateSold(p) ==
  /\ call[p].pc = "issue_sold"
  /\ \/ /\ event_tiers' = [event_tiers EXCEPT ![call[p].tier_id].sold = NewSoldCount(call[p])]
        /\ Return(p, Response("issue", "success", call[p].ticket_id, call[p].payment_id, <<>>))
        /\ issued_ok' = [issued_ok EXCEPT ![call[p].tier_id] = @ + 1]
     \/ /\ Return(p, IssueError(call[p], "INTERNAL_ERROR"))
        /\ UNCHANGED <<event_tiers, issued_ok>>
  /\ UNCHANGED <<events, tickets, scan_history, clock, redeemed_ok, regvars, rlvars>>

\* -------------------------------------------------------- mark_ticket_used
\* select * from tickets where qr_code = qr
TicketsByQr(qr) == {i \in TicketIds : tickets[i].qr_code = qr}

\* select ... from tickets where backup_code = bc
TicketsByBackup(bc) == {i \in TicketIds : tickets[i].backup_code = bc}

\* A status check that rejects used tickets only.
TicketNotUsed(t) == t.status # "used"

\* Line 438: only an active ticket is redeemed.
TicketIsActive(t) == t.status = "active"

\* Lines 421-445: look the ticket up by QR code and check its status.  The
\* select has no ORDER BY: data[0] is any of the matching rows.
MarkTicketUsed(p, mark_data) ==
  /\ call[p].pc = "idle"
  /\ LET c == [IdleCall EXCEPT !.op = "redeem",
                               !.qr_code = mark_data.qr_code,
                               !.scanned_by = mark_data.scanned_by,
                               !.location = mark_data.location]
     IN  IF TicketsByQr(mark_data.qr_code) = {}
         THEN Return(p, MarkResult("TICKET_NOT_FOUND", 0, mark_data.qr_code))
         ELSE \E i \in TicketsByQr(mark_data.qr_code) :
                IF ~TicketIsActive(tickets[i])
                THEN Return(p, MarkResult("TICKET_NOT_ACTIVE", i, mark_data.qr_code))
                ELSE Continue(p, [c EXCEPT !.pc = "mark_update", !.ticket_id = i])
  /\ UNCHANGED <<dbvars, issued_ok, redeemed_ok, regvars, rlvars>>

\* An update that sets the status and no stamp.
UpdateDataStatusOnly(t, c) == [t EXCEPT !.status = "used"]

\* Lines 447-454: the columns mark_ticket_used writes.
UpdateData(t, c) ==
  [t EXCEPT !.status = "used", !.used_at = clock + 1,
            !.scanned_by = c.scanned_by, !.scan_location = c.location]

\* Lines 447-465: update tickets ... where id = ticket['id'].
MarkUpdate(p) ==
  /\ call[p].pc = "mark_update"
  /\ \/ /\ tickets' = [tickets EXCEPT ![call[p].ticket_id] = UpdateData(@, call[p])]
        /\ clock' = clock + 1
        /\ Continue(p, [call[p] EXCEPT !.pc = "mark_scan"])
     \/ /\ Return(p, MarkResult("INTERNAL_ERROR", call[p].ticket_id, call[p].qr_code))
        /\ UNCHANGED <<tickets, clock>>
  /\ UNCHANGED <<events, event_tiers, scan_history, issued_ok, redeemed_ok, regvars, rlvars>>

\* Lines 467-476: the scan_history row.
ScanRecord(c) ==
  [ticket_id |-> c.ticket_id, scanned_by |-> c.scanned_by,
   location |-> c.location, scan_type |-> "qr_code"]

\* Lines 467-493: insert the scan record and return success; an insert that
\* raises ends the call with INTERNAL_ERROR.
MarkRecordScan(p) ==
  /\ call[p].pc = "mark_scan"
  /\ \/ /\ scan_history' = Append(scan_history, ScanRecord(call[p]))
        /\ Return(p, MarkResult("success", call[p].ticket_id, call[p].qr_code))
        /\ redeemed_ok' = [redeemed_ok EXCEPT ![call[p].ticket_id] = @ + 1]
     \/ /\ Return(p, MarkResult("INTERNAL_ERROR", call[p].ticket_id, call[p].qr_code))
        /\ UNCHANGED <<scan_history, redeemed_ok>>
  /\ UNCHANGED <<events, event_tiers, tickets, clock, issued_ok, regvars, rlvars>>

\* ------------------------------------------------------------ verify_ticket
\* get_scan_history: select * from scan_history where ticket_id = tid
GetScanHistory(tid) == SelectSeq(scan_history, LAMBDA r : r.ticket_id = tid)

\* Lines 345-348: the code verify_ticket looks up, the QR code if given.
VerifyCode(verify_data) ==
  IF verify_data.qr_code # None THEN verify_data.qr_code ELSE verify_data.backup_code

\* Lines 345-355: the rows the verify query returns.
VerifyQuery(verify_data) ==
  IF verify_data.qr_code # None THEN TicketsByQr(verify_data.qr_code)
  ELSE TicketsByBackup(verify_data.backup_code)

\* A verify_ticket that looks at the event's status before the ticket's.
VerifyResponseChecksEventFirst(p, verify_data) ==
  LET code == VerifyCode(verify_data) IN
  IF verify_data.qr_code = None /\ verify_data.backup_code = None
  THEN Return(p, VerifyResult("No verification code provided", 0, None, <<>>))
  ELSE IF VerifyQuery(verify_data) = {}
  THEN Return(p, VerifyResult("Invalid ticket code", 0, code, <<>>))
  ELSE \E i \in VerifyQuery(verify_data) :
         IF events[tickets[i].event_id].status # "published"
         THEN Return(p, VerifyResult("Event is not active", i, code, <<>>))
         ELSE IF tickets[i].status = "used"
         THEN Continue(p, [IdleCall EXCEPT !.op = "verify", !.pc = "verify_history",
                                           !.qr_code = code, !.ticket_id = i])
         ELSE IF tickets[i].status = "cancelled"
         THEN Return(p, VerifyResult("Ticket cancelled", i, code, <<>>))
         ELSE Return(p, VerifyResult("Ticket is valid", i, code, <<>>))

\* Lines 320-412 without the scan-history read: the response of verify_ticket,
\* or the hand-over to the scan-history read for a used ticket.
VerifyResponse(p, verify_data) ==
  LET code == VerifyCode(verify_data) IN
  IF verify_data.qr_code = None /\ verify_data.backup_code = None
  THEN Return(p, VerifyResult("No verification code provided", 0, None, <<>>))
  ELSE IF VerifyQuery(verify_data) = {}
  THEN Return(p, VerifyResult("Invalid ticket code", 0, code, <<>>))
  ELSE \E i \in VerifyQuery(verify_data) :
         IF tickets[i].status = "used"
         THEN Continue(p, [IdleCall EXCEPT !.op = "verify", !.pc = "verify_history",
                                           !.qr_code = code, !.ticket_id = i])
         ELSE IF tickets[i].status = "cancelled"
         THEN Return(p, VerifyResult("Ticket cancelled", i, code, <<>>))
         ELSE IF events[tickets[i].event_id].status # "published"
         THEN Return(p, VerifyResult("Event is not active", i, code, <<>>))
         ELSE Return(p, VerifyResult("Ticket is valid", i, code, <<>>))

\* A verify_ticket that also writes a scan record, as
\* SupabaseService.verify_ticket does.
VerifyTicketRecordsScan(p, verify_data) ==
  /\ call[p].pc = "idle"
  /\ VerifyResponse(p, verify_data)
  /\ scan_history' = Append(scan_history,
       [ticket_id |-> 1, scanned_by |-> None, location |-> None, scan_type |-> "qr_code"])
  /\ UNCHANGED <<events, event_tiers, tickets, clock, issued_ok, redeemed_ok, regvars, rlvars>>

\* Lines 320-412: verify_ticket only reads.
VerifyTicket(p, verify_data) ==
  /\ call[p].pc = "idle"
  /\ VerifyResponse(p, verify_data)
  /\ UNCHANGED <<dbvars, issued_ok, redeemed_ok, regvars, rlvars>>

\* Lines 369-379 and 495-504: the scan history attached to 'Ticket already used'.
VerifyScanHistory(p) ==
  /\ call[p].pc = "verify_history"
  /\ Return(p, VerifyResult("Ticket already used", call[p].ticket_id,
                            call[p].qr_code, GetScanHistory(call[p].ticket_id)))
  /\ UNCHANGED <<dbvars, issued_ok, redeemed_ok, regvars, rlvars>>

\* ------------------------------------------------------------- the service
TicketData == [payment_id : PaymentIds, event_id : EventIds, tier_id : TierIds]
MarkData == [qr_code : QrCodes, scanned_by : Agents, location : Locations]
VerifyData ==
  [qr_code : QrCodes, backup_code : {None}] \cup
  [qr_code : {None}, backup_code : BackupCodes \cup {None}]

\* ------------------------------------------------- ConnectionManager
\* Two websocket sessions are served at the same time.
Sessions == {1, 2}
\* Task 0 is the HTTP handler notify_event_update, task s > 0 is session s.
Tasks == {0} \cup Sessions
ConnectionIds == {"c1", "c2"}
\* The user of a session: none without a valid token.
SessionUsers == {None, "u1", "u2"}
RoomIds == {"r1", "r2"}

\* x in list
Contains(list, x) == \E j \in 1..Len(list) : list[j] = x

\* list.remove(x): drops the first occurrence of x.
RemoveFirst(list, x) ==
  LET j == CHOOSE k \in 1..Len(list) :
             list[k] = x /\ \A m \in 1..(k - 1) : list[m] # x
  IN  SubSeq(list, 1, j - 1) \o SubSeq(list, j + 1, Len(list))

\* del d[k]
DictDel(d, k) == [x \in DOMAIN d \ {k} |-> d[x]]

\* d[k] = v
DictSet(d, k, v) == [x \in DOMAIN d \cup {k} |-> IF x = k THEN v ELSE d[x]]

EmptyDict == [x \in {} |-> 0]

\* connect, lines 31-34: index the connection under its user.
ConnectUsers(uc, connection_id, user_id) ==
  IF user_id = None THEN uc
  ELSE DictSet(uc, user_id,
               Append(IF user_id \in DOMAIN uc THEN uc[user_id] ELSE <<>>, connection_id))

\* disconnect, lines 40-41.
DisconnectActive(ac, connection_id) == DictDel(ac, connection_id)

\* A disconnect that drops the user's whole list.
DisconnectUsersDropsList(uc, connection_id, user_id) ==
  IF user_id # None /\ user_id \in DOMAIN uc THEN DictDel(uc, user_id) ELSE uc

\* disconnect, lines 43-47.
DisconnectUsers(uc, connection_id, user_id) ==
  IF user_id # None /\ user_id \in DOMAIN uc
  THEN LET l == IF Contains(uc[user_id], connection_id)
                THEN RemoveFirst(uc[user_id], connection_id) ELSE uc[user_id]
       IN  IF l = <<>> THEN DictDel(uc, user_id) ELSE DictSet(uc, user_id, l)
  ELSE uc

\* disconnect, lines 49-54: a room is looked at only if it holds the connection.
DisconnectRooms(rc, connection_id) ==
  LET after(r) == IF Contains(rc[r], connection_id)
                  THEN RemoveFirst(rc[r], connection_id) ELSE rc[r]
      kept == {r \in DOMAIN rc : ~Contains(rc[r], connection_id) \/ after(r) # <<>>}
  IN  [r \in kept |-> after(r)]

\* A join_room without the membership test.
JoinRoomAppends(rc, connection_id, room_id) ==
  DictSet(rc, room_id,
          Append(IF room_id \in DOMAIN rc THEN rc[room_id] ELSE <<>>, connection_id))

\* join_room, lines 58-64.
JoinRoomResult(rc, connection_id, room_id) ==
  LET l == IF room_id \in DOMAIN rc THEN rc[room_id] ELSE <<>>
  IN  DictSet(rc, room_id, IF Contains(l, connection_id) THEN l ELSE Append(l, connection_id))

\* leave_room that keeps the emptied room.
LeaveRoomKeepsEmpty(rc, connection_id, room_id) ==
  IF room_id \in DOMAIN rc /\ Contains(rc[room_id], connection_id)
  THEN DictSet(rc, room_id, RemoveFirst(rc[room_id], connection_id))
  ELSE rc

\* leave_room, lines 66-71.
LeaveRoomResult(rc, connection_id, room_id) ==
  IF room_id \in DOMAIN rc /\ Contains(rc[room_id], connection_id)
  THEN LET l == RemoveFirst(rc[room_id], connection_id)
       IN  IF l = <<>> THEN DictDel(rc, room_id) ELSE DictSet(rc, room_id, l)
  ELSE rc

ClosedSession == [pc |-> "closed", connection_id |-> None, user_id |-> None]

\* No fan-out runs.  kind is "room" (send_room_message), "user"
\* (send_personal_message) or "broadcast" (broadcast_message); task is the
\* caller; room or user is the target and idx the position in its list;
\* detached: the list was deleted from its index (the loop still holds the
\* emptied list); size: len(active_connections) when a broadcast began;
\* sent: the send_text calls made so far; raised: the last fan-out ended
\* with an exception; interfered records that a table the loop reads
\* changed since the loop began, and stable holds the connection ids that
\* have been recipients, on the same websocket, ever since the loop began
\* (both are read by no action).
IdleFanout ==
  [pc |-> "idle", kind |-> None, task |-> 0, room |-> None, user |-> None,
   idx |-> 0, detached |-> FALSE, size |-> 0, interfered |-> FALSE,
   raised |-> FALSE, sent |-> <<>>, stable |-> {}]

\* Lines 75-77, 85-87 and 95: the connection ids a fan-out of this kind is to
\* reach when the tables are ac, uc, rc.
FanoutTargets(kind, user, room, ac, uc, rc) ==
  IF kind = "broadcast" THEN DOMAIN ac
  ELSE IF kind = "user"
  THEN IF user \in DOMAIN uc THEN {c \in DOMAIN ac : Contains(uc[user], c)} ELSE {}
  ELSE IF room \in DOMAIN rc THEN {c \in DOMAIN ac : Contains(rc[room], c)} ELSE {}

\* The recipients of the running fan-out that stay recipients when the
\* tables become ac, uc, rc.
StillTargets(ac, uc, rc) ==
  {c \in fanout.stable \cap FanoutTargets(fanout.kind, fanout.user, fanout.room, ac, uc, rc) :
     ac[c] = active_connections[c]}

\* What a change of the registry to (ac, uc, rc) means for the fan-out.
Disturb(ac, uc, rc) ==
  IF fanout.pc = "idle" THEN fanout
  ELSE IF fanout.kind = "room"
  THEN IF ac = active_connections /\ rc = room_connections THEN fanout
       ELSE [fanout EXCEPT !.interfered = TRUE,
                           !.detached = @ \/ fanout.room \notin DOMAIN rc,
                           !.stable = StillTargets(ac, uc, rc)]
  ELSE IF fanout.kind = "user"
  THEN IF ac = active_connections /\ uc = user_connections THEN fanout
       ELSE [fanout EXCEPT !.interfered = TRUE,
                           !.detached = @ \/ fanout.user \notin DOMAIN uc,
                           !.stable = StillTargets(ac, uc, rc)]
  ELSE IF ac = active_connections THEN fanout
       ELSE [fanout EXCEPT !.interfered = TRUE, !.stable = StillTargets(ac, uc, rc)]

\* The registry after its tables become ac, uc, rc.
SetRegistry(ac, uc, rc) ==
  /\ active_connections' = ac
  /\ user_connections' = uc
  /\ room_connections' = rc
  /\ fanout' = Disturb(ac, uc, rc)

\* websocket_endpoint, lines 104-127, and connect, lines 26-36: the session
\* is accepted and registered under the connection id of its URL.
Connect(s, connection_id, user_id) ==
  /\ session[s].pc = "closed"
  /\ SetRegistry(DictSet(active_connections, connection_id, s),
                 ConnectUsers(user_connections, connection_id, user_id),
                 room_connections)
  /\ session' = [session EXCEPT ![s] = [pc |-> "open", connection_id |-> connection_id,
                                        user_id |-> user_id]]
  /\ UNCHANGED <<tvars, rlvars>>

\* Lines 28 and 227-229: websocket.accept() raises, the handler disconnects
\* the connection id although this session never registered it.
ConnectFail(s, connection_id, user_id) ==
  /\ session[s].pc = "closed"
  /\ SetRegistry(DisconnectActive(active_connections, connection_id),
                 DisconnectUsers(user_connections, connection_id, user_id),
                 DisconnectRooms(room_connections, connection_id))
  /\ UNCHANGED <<session, tvars, rlvars>>

\* Lines 145-154 and 167-178: a join_room or subscribe_event message.
JoinRoom(s, room_id) ==
  /\ session[s].pc = "open"
  /\ SetRegistry(active_connections, user_connections,
                 JoinRoomResult(room_connections, session[s].connection_id, room_id))
  /\ UNCHANGED <<session, tvars, rlvars>>

\* Lines 156-165 and 180-191: a leave_room or unsubscribe_event message.
LeaveRoom(s, room_id) ==
  /\ session[s].pc = "open"
  /\ SetRegistry(active_connections, user_connections,
                 LeaveRoomResult(room_connections, session[s].connection_id, room_id))
  /\ UNCHANGED <<session, tvars, rlvars>>

\* Lines 225-229 and 38-56: the session ends (client gone or any error).
Disconnect(s) ==
  /\ session[s].pc = "open"
  /\ SetRegistry(DisconnectActive(active_connections, session[s].connection_id),
                 DisconnectUsers(user_connections, session[s].connection_id,
                                 session[s].user_id),
                 DisconnectRooms(room_connections, session[s].connection_id))
  /\ session' = [session EXCEPT ![s] = ClosedSession]
  /\ UNCHANGED <<tvars, rlvars>>

\* A loop that passes over the entry at idx.
NextTargetSkipsOne(list, idx) ==
  IF \E j \in (idx + 1)..Len(list) : list[j] \in DOMAIN active_connections
  THEN CHOOSE j \in (idx + 1)..Len(list) :
         /\ list[j] \in DOMAIN active_connections
         /\ \A k \in (idx + 1)..(j - 1) : list[k] \notin DOMAIN active_connections
  ELSE 0

\* send_room_message, lines 86-87: the next entry of the list, from position
\* idx on, that is in active_connections; 0 when the list is exhausted.
NextTarget(list, idx) ==
  IF \E j \in idx..Len(list) : list[j] \in DOMAIN active_connections
  THEN CHOOSE j \in idx..Len(list) :
         /\ list[j] \in DOMAIN active_connections
         /\ \A k \in idx..(j - 1) : list[k] \notin DOMAIN active_connections
  ELSE 0

\* The list the loop of f iterates (lines 75-76 and 85-86).
FanoutList(f) ==
  IF f.kind = "user"
  THEN IF f.detached \/ f.user \notin DOMAIN user_connections THEN <<>>
       ELSE user_connections[f.user]
  ELSE IF f.detached \/ f.room \notin DOMAIN room_connections THEN <<>>
       ELSE room_connections[f.room]

\* A loop that lets the exception of a failed send_text end the call.
SendLoopRaises(f) ==
  LET list == FanoutList(f)
      j == NextTarget(list, f.idx)
  IN  IF f.sent # <<>> /\ ~f.sent[Len(f.sent)].ok
      THEN /\ fanout' = [IdleFanout EXCEPT !.raised = TRUE]
           /\ session' = IF f.task \in Sessions
                         THEN [session EXCEPT ![f.task] = ClosedSession] ELSE session
      ELSE IF j = 0
      THEN /\ fanout' = IdleFanout
           /\ session' = IF f.task \in Sessions
                         THEN [session EXCEPT ![f.task].pc = "open"] ELSE session
      ELSE /\ \E ok \in BOOLEAN :
                fanout' = [f EXCEPT !.idx = j + 1,
                                    !.sent = Append(@, [connection_id |-> list[j],
                                                        websocket |-> active_connections[list[j]],
                                                        ok |-> ok])]
           /\ session' = IF f.task \in Sessions
                         THEN [session EXCEPT ![f.task].pc = "sending"] ELSE session

\* send_room_message, lines 85-91, and send_personal_message, lines 75-81:
\* the loop runs from f up to the next send_text (which succeeds or raises
\* and is logged) or to the end of the list, where the call returns; a
\* session that called it waits for it.
SendLoop(f) ==
  LET list == FanoutList(f)
      j == NextTarget(list, f.idx)
  IN  IF j = 0
      THEN /\ fanout' = IdleFanout
           /\ session' = IF f.task \in Sessions
                         THEN [session EXCEPT ![f.task].pc = "open"] ELSE session
      ELSE /\ \E ok \in BOOLEAN :
                fanout' = [f EXCEPT !.idx = j + 1,
                                    !.sent = Append(@, [connection_id |-> list[j],
                                                        websocket |-> active_connections[list[j]],
                                                        ok |-> ok])]
           /\ session' = IF f.task \in Sessions
                         THEN [session EXCEPT ![f.task].pc = "sending"] ELSE session

\* send_room_message is called: by notify_event_update (lines 264-297, task 0)
\* or by the send_message branch of an authenticated session (lines 193-207).
\* Fan-outs only read the registry, so one is followed at a time.
SendRoomMessage(t, room_id) ==
  /\ fanout.pc = "idle"
  /\ t \in Sessions => session[t].pc = "open" /\ session[t].user_id # None
  /\ SendLoop([IdleFanout EXCEPT !.pc = "sending", !.kind = "room", !.task = t,
                                  !.room = room_id, !.idx = 1,
                                  !.stable = FanoutTargets("room", None, room_id,
                                                           active_connections,
                                                           user_connections,
                                                           room_connections)])
  /\ UNCHANGED <<active_connections, user_connections, room_connections, tvars, rlvars>>

\* The loop resumes after its send_text.
SendRoomStep ==
  /\ fanout.pc = "sending" /\ fanout.kind = "room"
  /\ SendLoop(fanout)
  /\ UNCHANGED <<active_connections, user_connections, room_connections, tvars, rlvars>>

\* send_personal_message is called: by send_realtime_notification (lines
\* 347-369, task 0) or by the send_message branch of an authenticated
\* session (lines 193-215).
SendPersonalMessage(t, user_id) ==
  /\ fanout.pc = "idle"
  /\ t \in Sessions => session[t].pc = "open" /\ session[t].user_id # None
  /\ SendLoop([IdleFanout EXCEPT !.pc = "sending", !.kind = "user", !.task = t,
                                  !.user = user_id, !.idx = 1,
                                  !.stable = FanoutTargets("user", user_id, None,
                                                           active_connections,
                                                           user_connections,
                                                           room_connections)])
  /\ UNCHANGED <<active_connections, user_connections, room_connections, tvars, rlvars>>

\* The loop resumes after its send_text.
SendPersonalStep ==
  /\ fanout.pc = "sending" /\ fanout.kind = "user"
  /\ SendLoop(fanout)
  /\ UNCHANGED <<active_connections, user_connections, room_connections, tvars, rlvars>>

\* The connection ids a fan-out has sent to.
Visited(f) == {f.sent[k].connection_id : k \in 1..Len(f.sent)}

\* broadcast_message, lines 95-99: the loop over active_connections.items().
\* The dict iterator raises RuntimeError when the dict has another size than
\* at the start of the loop; otherwise it yields an entry not yet visited
\* (the entries are taken in any order) or ends the loop.
BroadcastLoop(f) ==
  IF Cardinality(DOMAIN active_connections) # f.size
  THEN fanout' = [IdleFanout EXCEPT !.raised = TRUE]
  ELSE LET rest == DOMAIN active_connections \ Visited(f)
       IN  IF rest = {}
           THEN fanout' = IdleFanout
           ELSE \E c \in rest, ok \in BOOLEAN :
                  fanout' = [f EXCEPT !.sent = Append(@, [connection_id |-> c,
                                                          websocket |-> active_connections[c],
                                                          ok |-> ok])]

\* broadcast_message is called by the /broadcast handler, lines 231-265.
BroadcastMessage ==
  /\ fanout.pc = "idle"
  /\ BroadcastLoop([IdleFanout EXCEPT !.pc = "sending", !.kind = "broadcast",
                                       !.size = Cardinality(DOMAIN active_connections),
                                       !.stable = DOMAIN active_connections])
  /\ UNCHANGED <<active_connections, user_connections, room_connections, session, tvars, rlvars>>

\* The loop resumes after its send_text.
BroadcastStep ==
  /\ fanout.pc = "sending" /\ fanout.kind = "broadcast"
  /\ BroadcastLoop(fanout)
  /\ UNCHANGED <<active_connections, user_connections, room_connections, session, tvars, rlvars>>

\* ------------------------------------------------------ RateLimitMiddleware
\* The last second of the model's clock.
MaxTime == 3

\* Paths are lists of segments (/api/auth/login is <<"api", "auth", "login">>).
LoginPath == <<"api", "auth", "login">>
DefaultPattern == <<"default">>

\* Lines 28-34: self.rate_limits, in insertion order, with the limits and
\* windows scaled down (2 per 2 s for 5 per 300 s, and so on).
rate_limits ==
  << [pattern |-> LoginPath,                       requests |-> 2, window |-> 2],
     [pattern |-> <<"api", "auth", "register">>,   requests |-> 1, window |-> 3],
     [pattern |-> <<"api", "auth", "send-otp">>,   requests |-> 1, window |-> 3],
     [pattern |-> <<"api", "payments">>,           requests |-> 2, window |-> 1],
     [pattern |-> DefaultPattern,                  requests |-> 3, window |-> 1] >>

\* path.startswith(pattern), segment by segment.
StartsWith(path, pattern) ==
  Len(pattern) <= Len(path) /\ SubSeq(path, 1, Len(pattern)) = pattern

\* get_rate_limit_config, lines 68-79: the entry of the path itself, else the
\* first entry (other than default) the path starts with, else default.
get_rate_limit_config(path) ==
  LET exact == {k \in 1..Len(rate_limits) : rate_limits[k].pattern = path}
      prefix == {k \in 1..Len(rate_limits) :
                   /\ rate_limits[k].pattern # DefaultPattern
                   /\ StartsWith(path, rate_limits[k].pattern)}
  IN  IF exact # {} THEN rate_limits[CHOOSE k \in exact : TRUE]
      ELSE IF prefix # {}
      THEN rate_limits[CHOOSE k \in prefix : \A j \in prefix : k <= j]
      ELSE rate_limits[CHOOSE k \in 1..Len(rate_limits) :
                         rate_limits[k].pattern = DefaultPattern]

\* The clients and paths of the requests, and the request tasks.
ClientIds == {"ip:10.0.0.1"}
RequestPaths == {LoginPath, <<"api", "payments", "verify">>}
LimiterTasks == {"t1", "t2"}

\* Line 84: key = f"rate_limit:{client_id}:{path}".
Key(client_id, path) == <<client_id, path>>
Keys == {Key(c, p) : c \in ClientIds, p \in RequestPaths}

\* A task that runs no is_rate_limited call.
IdleLimiter ==
  [pc |-> "idle", client_id |-> None, path |-> <<>>, current_time |-> 0, window_start |-> 0]

\* min(l) of a non-empty list.
Min(l) == CHOOSE x \in {l[k] : k \in 1..Len(l)} : \A k \in 1..Len(l) : x <= l[k]

\* Lines 129-132: the timestamps of the list that are after window_start.
Cleaned(l, window_start) ==
  SelectSeq(l, LAMBDA timestamp : timestamp > window_start)

\* Lines 124-153, the memory store: what the call with locals c returns and
\* the store it leaves.
MemoryStoreOutcome(c) ==
  LET config == get_rate_limit_config(c.path)
      key == Key(c.client_id, c.path)
      old == IF key \in DOMAIN memory_store THEN memory_store[key] ELSE <<>>
      kept == Cleaned(old, c.window_start)
      current_requests == Len(kept)
      oldest_request == IF kept # <<>> THEN Min(kept) ELSE c.current_time
  IN  IF current_requests >= config.requests
      THEN [store |-> DictSet(memory_store, key, kept),
            info |-> [key |-> key, limited |-> TRUE, requests_remaining |-> 0,
                      reset_time |-> oldest_request + config.window,
                      retry_after |-> oldest_request + config.window - c.current_time]]
      ELSE [store |-> DictSet(memory_store, key, Append(kept, c.current_time)),
            info |-> [key |-> key, limited |-> FALSE,
                      requests_remaining |-> config.requests - current_requests - 1,
                      reset_time |-> c.current_time + config.window,
                      retry_after |-> 0]]

\* The call of task r, with locals c, runs lines 124-153 and returns.
MemoryLimit(r, c) ==
  LET out == MemoryStoreOutcome(c) IN
  /\ memory_store' = out.store
  /\ limit_info' = out.info
  /\ admitted' = IF out.info.limited THEN admitted
                 ELSE [admitted EXCEPT ![out.info.key][c.current_time] = @ + 1]
  /\ limiter' = [limiter EXCEPT ![r] = IdleLimiter]

\* is_rate_limited, lines 81-88: the config, the key and the time are taken,
\* then get_redis_client is awaited.  Without a Redis URL it returns at once
\* (nothing is awaited inside it) and the call goes on to the memory store;
\* with a URL the task waits for the Redis connection.
IsRateLimited(r, client_id, path) ==
  /\ limiter[r].pc = "idle"
  /\ LET c == [pc |-> "redis", client_id |-> client_id, path |-> path,
               current_time |-> now,
               window_start |-> now - get_rate_limit_config(path).window]
     IN  IF redis_url = None
         THEN MemoryLimit(r, c)
         ELSE /\ limiter' = [limiter EXCEPT ![r] = c]
              /\ UNCHANGED <<memory_store, limit_info, admitted>>
  /\ UNCHANGED <<redis_url, now, tvars, regvars>>

\* Lines 36-46 and 90-122: Redis is unavailable (the ping or a command
\* raises), the call falls back to the memory store with the time it took
\* before it waited.
RedisUnavailable(r) ==
  /\ limiter[r].pc = "redis"
  /\ MemoryLimit(r, limiter[r])
  /\ UNCHANGED <<redis_url, now, tvars, regvars>>

\* A second passes.
Tick ==
  /\ now < MaxTime
  /\ now' = now + 1
  /\ UNCHANGED <<redis_url, memory_store, limiter, limit_info, admitted, tvars, regvars>>

NoLimitInfo ==
  [key |-> None, limited |-> FALSE, requests_remaining |-> 0, reset_time |-> 0,
   retry_after |-> 0]

\* RateLimitMiddleware.__init__, lines 21-25, at second 0; no Redis URL.
LimiterInit ==
  /\ redis_url = None
  /\ memory_store = EmptyDict
  /\ now = 0
  /\ limiter = [r \in LimiterTasks |-> IdleLimiter]
  /\ limit_info = NoLimitInfo
  /\ admitted = [k \in Keys |-> [t \in 0..MaxTime |-> 0]]

\* A ticket issued earlier.
IssuedTicket(payment_id, qr_code, backup_code, status) ==
  [event_id |-> "e1", tier_id |-> "t1", user_id |-> "u1",
   payment_id |-> payment_id, qr_code |-> qr_code, backup_code |-> backup_code,
   status |-> status, used_at |-> 0, scanned_by |-> None, scan_location |-> None]

NoResponse == Response("idle", None, 0, None, <<>>)

\* ConnectionManager.__init__, lines 21-24, and no task running.
RegistryInit ==
  /\ active_connections = EmptyDict
  /\ user_connections = EmptyDict
  /\ room_connections = EmptyDict
  /\ session = [s \in Sessions |-> ClosedSession]
  /\ fanout = IdleFanout

\* No ticket request in progress.
WorkersInit ==
  /\ call = [p \in Procs |-> IdleCall]
  /\ response = NoResponse
  /\ issued_ok = [t \in DOMAIN InitialTiers |-> 0]
  /\ redeemed_ok = [i \in 1..MaxTickets |-> 0]

\* The database before the first sale: event e1 with its tier, no ticket.
IssueInit ==
  /\ events = [e1 |-> [status |-> "published"]]
  /\ event_tiers = InitialTiers
  /\ tickets = <<>>
  /\ scan_history = <<>>
  /\ clock = 0
  /\ WorkersInit
  /\ RegistryInit
  /\ LimiterInit

IssueNext ==
  \/ \E p \in Procs, d \in TicketData, u \in UserIds : IssueTicket(p, d, u)
  \/ \E p \in Procs : IssueCheckTier(p)
  \/ \E p \in Procs : IssueInsert(p)
  \/ \E p \in Procs : IssueUpdateSold(p)

IssueSpec == IssueInit /\ [][IssueNext]_vars

\* issue_ticket called by one worker, one call after the other.
SequentialIssueNext ==
  \/ \E d \in TicketData, u \in UserIds : IssueTicket("w1", d, u)
  \/ IssueCheckTier("w1")
  \/ IssueInsert("w1")
  \/ IssueUpdateSold("w1")

SequentialIssueSpec == IssueInit /\ [][SequentialIssueNext]_vars

\* The database at the door: event e1 (published or back to draft) and two
\* tickets issued for it; both carry backup code b1 (six random digits are
\* not checked against the table), the first may have been cancelled.
RedeemInit ==
  /\ \E st \in {"published", "draft"} : events = [e1 |-> [status |-> st]]
  /\ event_tiers = [InitialTiers EXCEPT !["t1"].sold = 2]
  /\ \E st \in {"active", "cancelled"} :
       tickets = << IssuedTicket("p1", "q1", "b1", st),
                    IssuedTicket("p2", "q2", "b1", "active") >>
  /\ scan_history = <<>>
  /\ clock = 0
  /\ WorkersInit
  /\ RegistryInit
  /\ LimiterInit

RedeemNext ==
  \/ \E p \in Procs, d \in MarkData : MarkTicketUsed(p, d)
  \/ \E p \in Procs : MarkUpdate(p)
  \/ \E p \in Procs : MarkRecordScan(p)
  \/ \E p \in Procs, d \in VerifyData : VerifyTicket(p, d)
  \/ \E p \in Procs : VerifyScanHistory(p)

RedeemSpec == RedeemInit /\ [][RedeemNext]_vars

\* What a scanner can put into the qr_code field of a mark-used request:
\* the QR token or the backup code printed on the ticket (line 425 reads
\* mark_data['qr_code'] and nothing else).
DoorMarkData == [qr_code : QrCodes \cup BackupCodes, scanned_by : Agents, location : Locations]

\* One scanner at the door, one request after the other.
DoorNext ==
  \/ \E d \in DoorMarkData : MarkTicketUsed("w1", d)
  \/ MarkUpdate("w1")
  \/ MarkRecordScan("w1")
  \/ \E d \in VerifyData : VerifyTicket("w1", d)
  \/ VerifyScanHistory("w1")

DoorSpec == RedeemInit /\ [][DoorNext]_vars

\* The registry of a fresh process, the database untouched.
RegistrySpecInit ==
  /\ events = [e1 |-> [status |-> "published"]]
  /\ event_tiers = InitialTiers
  /\ tickets = <<>>
  /\ scan_history = <<>>
  /\ clock = 0
  /\ WorkersInit
  /\ RegistryInit
  /\ LimiterInit

RegistryNext ==
  \/ \E s \in Sessions, c \in ConnectionIds, u \in SessionUsers : Connect(s, c, u)
  \/ \E s \in Sessions, c \in ConnectionIds, u \in SessionUsers : ConnectFail(s, c, u)
  \/ \E s \in Sessions, r \in RoomIds : JoinRoom(s, r)
  \/ \E s \in Sessions, r \in RoomIds : LeaveRoom(s, r)
  \/ \E s \in Sessions : Disconnect(s)
  \/ \E t \in Tasks, r \in RoomIds : SendRoomMessage(t, r)
  \/ SendRoomStep

RegistrySpec == RegistrySpecInit /\ [][RegistryNext]_vars

\* The registry with the three fan-outs; the sessions use one room.
FanoutRooms == {"r1"}

FanoutInit == RegistrySpecInit

FanoutNext ==
  \/ \E s \in Sessions, c \in ConnectionIds, u \in SessionUsers : Connect(s, c, u)
  \/ \E s \in Sessions, c \in ConnectionIds, u \in SessionUsers : ConnectFail(s, c, u)
  \/ \E s \in Sessions, r \in FanoutRooms : JoinRoom(s, r)
  \/ \E s \in Sessions, r \in FanoutRooms : LeaveRoom(s, r)
  \/ \E s \in Sessions : Disconnect(s)
  \/ \E t \in Tasks, r \in FanoutRooms : SendRoomMessage(t, r)
  \/ SendRoomStep
  \/ \E t \in Tasks, u \in UserIds : SendPersonalMessage(t, u)
  \/ SendPersonalStep
  \/ BroadcastMessage
  \/ BroadcastStep

FanoutSpec == FanoutInit /\ [][FanoutNext]_vars

\* Lines 129-131 and 225-229: the client of session s goes away, or handling
\* one of its messages raises; the handler (waiting in receive_text or in
\* the failing statement) has not run its except clause yet.
EndSession(s) ==
  /\ session[s].pc = "open"
  /\ session' = [session EXCEPT ![s].pc = "ending"]
  /\ UNCHANGED <<active_connections, user_connections, room_connections, fanout, tvars, rlvars>>

\* Lines 225-229 and 38-56: the handler of the ended session resumes in its
\* except clause, which calls manager.disconnect(connection_id, user_id).
HandleEnd(s) ==
  /\ session[s].pc = "ending"
  /\ SetRegistry(DisconnectActive(active_connections, session[s].connection_id),
                 DisconnectUsers(user_connections, session[s].connection_id,
                                 session[s].user_id),
                 DisconnectRooms(room_connections, session[s].connection_id))
  /\ session' = [session EXCEPT ![s] = ClosedSession]
  /\ UNCHANGED <<tvars, rlvars>>

SessionEndNext ==
  \/ \E s \in Sessions, c \in ConnectionIds, u \in SessionUsers : Connect(s, c, u)
  \/ \E s \in Sessions, c \in ConnectionIds, u \in SessionUsers : ConnectFail(s, c, u)
  \/ \E s \in Sessions, r \in RoomIds : JoinRoom(s, r)
  \/ \E s \in Sessions, r \in RoomIds : LeaveRoom(s, r)
  \/ \E s \in Sessions : EndSession(s)
  \/ \E s \in Sessions : HandleEnd(s)

\* The event loop resumes the handler of an ended session: its except clause
\* is ready to run and disconnect has no await.  Clients are not obliged to
\* connect, to send messages or to go away.
SessionEndFairness == \A s \in Sessions : WF_vars(HandleEnd(s))

SessionEndSpec == RegistrySpecInit /\ [][SessionEndNext]_vars /\ SessionEndFairness

\* The rate limiter of a fresh process, with or without a Redis URL in its
\* configuration (the Redis it names is down), the rest untouched.
RateLimitInit ==
  /\ events = [e1 |-> [status |-> "published"]]
  /\ event_tiers = InitialTiers
  /\ tickets = <<>>
  /\ scan_history = <<>>
  /\ clock = 0
  /\ WorkersInit
  /\ RegistryInit
  /\ redis_url \in {None, "redis://cache:6379"}
  /\ memory_store = EmptyDict
  /\ now = 0
  /\ limiter = [r \in LimiterTasks |-> IdleLimiter]
  /\ limit_info = NoLimitInfo
  /\ admitted = [k \in Keys |-> [t \in 0..MaxTime |-> 0]]

RateLimitNext ==
  \/ \E r \in LimiterTasks, c \in ClientIds, p \in RequestPaths : IsRateLimited(r, c, p)
  \/ \E r \in LimiterTasks : RedisUnavailable(r)
  \/ Tick

RateLimitSpec == RateLimitInit /\ [][RateLimitNext]_vars

\* ====================================================================
\* Properties
\* ====================================================================

\* The tickets that reference payment pid.
TicketsOfPayment(pid) == {i \in 1..Len(tickets) : tickets[i].payment_id = pid}

\* The tickets that carry QR code qr.
TicketsWithQr(qr) == {i \in 1..Len(tickets) : tickets[i].qr_code = qr}

\* The scan records of ticket i.
ScansOf(i) == {k \in 1..Len(scan_history) : scan_history[k].ticket_id = i}

Terminal(t) == t.status \in {"used", "cancelled"}

AllIdle == \A p \in Procs : call[p].pc = "idle"

\* A call that returned at its first step (the worker was and stays idle)
\* with a response other than the previous one.
ReturnsAtOnce(op) == response' # response /\ response'.op = op /\ UNCHANGED call

\* C1 (RedeemSpec): however the lookup, update and scan-insert steps of
\* concurrent mark_ticket_used calls for one ticket interleave, at most one
\* of them returns success and at most one scan record is written for the
\* ticket.
C1_AtMostOnceRedemption ==
  \A i \in 1..Len(tickets) : redeemed_ok[i] <= 1 /\ Cardinality(ScansOf(i)) <= 1

\* C2 (RedeemSpec): no step moves a ticket out of used or cancelled; a
\* mark_ticket_used call goes on to its update only for a ticket it found
\* active; and a call whose QR code matches only used or cancelled tickets
\* returns TICKET_NOT_ACTIVE and leaves tickets (status and stamps),
\* scan_history and event_tiers as they were.
C2_TerminalTicketsStay ==
  [][ /\ \A i \in 1..Len(tickets) :
           Terminal(tickets[i]) => tickets'[i].status = tickets[i].status
      /\ \A p \in Procs :
           (call[p].pc = "idle" /\ call'[p].pc = "mark_update")
             => tickets[call'[p].ticket_id].status = "active"
      /\ ( /\ ReturnsAtOnce("redeem")
           /\ TicketsWithQr(response'.key) # {}
           /\ \A i \in TicketsWithQr(response'.key) : Terminal(tickets[i]) )
         => /\ response'.result = "TICKET_NOT_ACTIVE"
            /\ UNCHANGED <<tickets, scan_history, event_tiers>>
    ]_vars

\* C2 witness: a ticket was redeemed once and a later attempt was rejected.
C2_Witness ==
  /\ response.op = "redeem" /\ response.result = "TICKET_NOT_ACTIVE"
  /\ response.ticket_id \in 1..Len(tickets)
  /\ tickets[response.ticket_id].status = "used"
  /\ redeemed_ok[response.ticket_id] = 1

PaymentErrors == {"PAYMENT_NOT_FOUND", "PAYMENT_NOT_SUCCESSFUL", "PAYMENT_MISMATCH"}

\* C3 (IssueSpec): an issue_ticket call that passes the payment checks while
\* a ticket for its payment exists returns TICKET_ALREADY_EXISTS, inserts no
\* ticket and writes no sold count; it never gets to the tier lookup.
C3_SecondIssueRejected ==
  [][ /\ \A p \in Procs :
           (call[p].pc = "idle" /\ call'[p].pc = "issue_tier")
             => TicketsOfPayment(call'[p].payment_id) = {}
      /\ ( /\ ReturnsAtOnce("issue")
           /\ response'.result \notin PaymentErrors
           /\ TicketsOfPayment(response'.key) # {} )
         => /\ response'.result = "TICKET_ALREADY_EXISTS"
            /\ UNCHANGED <<tickets, event_tiers, issued_ok>>
    ]_vars

\* C3 witness: one issue succeeded, the same payment was presented again and
\* rejected; there is one ticket and the sold count is 1.
C3_Witness ==
  /\ response.op = "issue" /\ response.result = "TICKET_ALREADY_EXISTS"
  /\ Cardinality(TicketsOfPayment(response.key)) = 1
  /\ Len(tickets) = 1
  /\ issued_ok["t1"] = 1 /\ event_tiers["t1"].sold = 1

\* C4 (IssueSpec): at most one ticket references any payment.
C4_OneTicketPerPayment ==
  \A pid \in PaymentIds : Cardinality(TicketsOfPayment(pid)) <= 1

\* C5 (IssueSpec): no tier has sold more than its quantity.
C5_NoOversell ==
  \A t \in DOMAIN event_tiers : event_tiers[t].sold <= event_tiers[t].quantity

\* C6 (IssueSpec): once every issue_ticket call has returned, each tier's
\* sold count is its initial value plus the number of calls that returned
\* success for it.
C6_SoldCountsSuccesses ==
  AllIdle => \A t \in DOMAIN event_tiers :
               event_tiers[t].sold = InitialTiers[t].sold + issued_ok[t]

\* C7 (RedeemSpec): every step of a verify_ticket call, by QR code or by
\* backup code, leaves tickets, event_tiers, events and scan_history as they
\* were.
C7_VerifyReadOnly ==
  [][ ( \/ response' # response /\ response'.op = "verify"
        \/ \E p \in Procs : call'[p] # call[p] /\ call'[p].op = "verify" )
      => UNCHANGED <<events, event_tiers, tickets, scan_history>>
    ]_vars

\* C7 witness: a verify by backup code answered "valid", the ticket is still
\* active and nothing was scanned.
C7_Witness ==
  /\ response.op = "verify" /\ response.result = "Ticket is valid"
  /\ response.key \in BackupCodes
  /\ tickets[response.ticket_id].status = "active"
  /\ scan_history = <<>>

\* The connection ids joined to room r.
RoomMembers(r) ==
  IF r \in DOMAIN room_connections
  THEN {room_connections[r][k] : k \in 1..Len(room_connections[r])}
  ELSE {}

\* The connection ids a fan-out has sent to.
SentIds(f) == {f.sent[k].connection_id : k \in 1..Len(f.sent)}

\* C8 (RegistrySpec): every send_text of a room fan-out goes to a connection
\* id that is, at that moment, joined to the room and registered, on the
\* websocket registered for it, whose session is open under that id (so
\* never to one that left the room or disconnected); and a fan-out that ends
\* with the registry as it was when it began has sent exactly once to every
\* registered member of the room.
C8_RoomDeliveryScoping ==
  [][ /\ (fanout'.pc = "sending" /\ fanout'.sent # fanout.sent)
         => LET e == fanout'.sent[Len(fanout'.sent)]
            IN  /\ e.connection_id \in RoomMembers(fanout'.room)
                /\ e.connection_id \in DOMAIN active_connections
                /\ e.websocket = active_connections[e.connection_id]
                /\ session[e.websocket].pc # "closed"
                /\ session[e.websocket].connection_id = e.connection_id
      /\ (fanout.pc = "sending" /\ fanout'.pc = "idle" /\ ~fanout.interfered)
         => /\ SentIds(fanout) = RoomMembers(fanout.room) \cap DOMAIN active_connections
            /\ Len(fanout.sent) = Cardinality(SentIds(fanout))
    ]_vars

\* C8 witness: an undisturbed fan-out has sent to both members of its room
\* and is about to return.
C8_Witness ==
  /\ fanout.pc = "sending" /\ ~fanout.interfered
  /\ Len(fanout.sent) = 2
  /\ Cardinality(RoomMembers(fanout.room)) = 2
  /\ \E r \in DOMAIN room_connections : r # fanout.room

\* C9 (RegistrySpec): every room in room_connections has a member.
C9_NoEmptyRoom ==
  \A r \in DOMAIN room_connections : room_connections[r] # <<>>

\* C9 witness: the room of a running fan-out was deleted when its last
\* member left or disconnected, while another room still has members.
C9_Witness ==
  /\ fanout.pc = "sending" /\ fanout.detached
  /\ fanout.room \notin DOMAIN room_connections
  /\ DOMAIN room_connections # {}

\* C10 (RegistrySpec): when a session ends and disconnect has run for its
\* connection id, the id is in no table: not in active_connections, in no
\* list of user_connections, in no room.
C10_DisconnectRemovesEverywhere ==
  [][ \A s \in Sessions :
        (session[s].pc = "open" /\ session'[s].pc = "closed")
          => LET c == session[s].connection_id
             IN  /\ c \notin DOMAIN active_connections'
                 /\ \A u \in DOMAIN user_connections' : ~Contains(user_connections'[u], c)
                 /\ \A r \in DOMAIN room_connections' : ~Contains(room_connections'[r], c)
    ]_vars

\* The number of occurrences of x in list.
Occurrences(list, x) == Cardinality({k \in 1..Len(list) : list[k] = x})

\* C11 (RegistrySpec): when a session registers under a connection id that
\* is already in active_connections, afterwards active_connections holds the
\* id (for the new session), and the id is listed exactly once in
\* user_connections under the user of this registration and under no other
\* user.
C11_ReRegistrationReplaces ==
  [][ \A s \in Sessions :
        ( /\ session[s].pc = "closed" /\ session'[s].pc = "open"
          /\ session'[s].connection_id \in DOMAIN active_connections )
        => LET c == session'[s].connection_id
               u == session'[s].user_id
           IN  /\ c \in DOMAIN active_connections'
               /\ active_connections'[c] = s
               /\ u # None => u \in DOMAIN user_connections'
               /\ \A v \in DOMAIN user_connections' :
                    Occurrences(user_connections'[v], c) = IF v = u THEN 1 ELSE 0
    ]_vars

\* No id is listed twice in a room.
NoDuplicateMember ==
  \A r \in DOMAIN room_connections, c \in ConnectionIds :
    Occurrences(room_connections[r], c) <= 1

\* C12 (RegistrySpec): in every reachable registry and for every connection
\* id c and room R, join_room(c, R) applied twice gives the room index that
\* join_room(c, R) applied once gives, and that index lists c exactly once
\* in R; no room ever lists an id twice.
C12_JoinRoomIdempotent ==
  /\ NoDuplicateMember
  /\ \A c \in ConnectionIds, r \in RoomIds :
       LET once == JoinRoomResult(room_connections, c, r)
       IN  /\ JoinRoomResult(once, c, r) = once
           /\ Occurrences(once[r], c) = 1

\* C12 witness: an open session is a member of a room that has two members,
\* so a join of that room by that session is a second join.
C12_Witness ==
  \E s \in Sessions, r \in DOMAIN room_connections :
    /\ session[s].pc = "open"
    /\ Contains(room_connections[r], session[s].connection_id)
    /\ Len(room_connections[r]) = 2

\* Connection id c is in none of the three tables.
UnknownId(c) ==
  /\ c \notin DOMAIN active_connections
  /\ \A u \in DOMAIN user_connections : ~Contains(user_connections[u], c)
  /\ \A r \in DOMAIN room_connections : ~Contains(room_connections[r], c)

\* C13 (RegistrySpec): in every reachable registry, leave_room(c, R) for a c
\* that is not in R (or an R that does not exist) returns the room index
\* unchanged, and disconnect(c, u) for a c that is in no table, with any
\* user or none, returns the connection table, the user index and the room
\* index unchanged; both are defined (no error) in these cases.
C13_RemovingAbsentIsNoOp ==
  /\ \A c \in ConnectionIds, r \in RoomIds :
       (r \notin DOMAIN room_connections \/ ~Contains(room_connections[r], c))
         => LeaveRoomResult(room_connections, c, r) = room_connections
  /\ \A c \in ConnectionIds, u \in SessionUsers :
       UnknownId(c)
         => /\ DisconnectActive(active_connections, c) = active_connections
            /\ DisconnectUsers(user_connections, c, u) = user_connections
            /\ DisconnectRooms(room_connections, c) = room_connections

\* C13 witness: an id is in no table while another id is registered, indexed
\* under a user and member of a room.
C13_Witness ==
  \E c \in ConnectionIds :
    /\ UnknownId(c)
    /\ DOMAIN active_connections # {}
    /\ DOMAIN user_connections # {}
    /\ DOMAIN room_connections # {}

\* A step of the fan-out loop itself: it sent, or it ended.
FanoutStep ==
  fanout.pc = "sending" /\ (fanout'.sent # fanout.sent \/ fanout'.pc = "idle")

FanoutEnds == fanout.pc = "sending" /\ fanout'.pc = "idle"

\* The ids a fan-out is to reach in the current registry.
Targets(f) ==
  IF f.kind = "broadcast" THEN DOMAIN active_connections
  ELSE IF f.kind = "user"
  THEN IF f.user \in DOMAIN user_connections
       THEN {c \in DOMAIN active_connections : Contains(user_connections[f.user], c)}
       ELSE {}
  ELSE RoomMembers(f.room) \cap DOMAIN active_connections

\* C14 (FanoutSpec): a send_personal_message to user u during which the
\* registry does not change has, when it returns, sent once to every
\* connection registered for u, at most once to any connection id, and only
\* on websockets whose session is registered for u.
C14_SendToUserDelivery ==
  [][ (FanoutEnds /\ fanout.kind = "user" /\ ~fanout.interfered)
      => /\ Len(fanout.sent) = Cardinality(SentIds(fanout))
         /\ \A k \in 1..Len(fanout.sent) :
              session[fanout.sent[k].websocket].user_id = fanout.user
         /\ \A s \in Sessions :
              ( /\ session[s].pc # "closed" /\ session[s].user_id = fanout.user
                /\ session[s].connection_id \in DOMAIN active_connections
                /\ active_connections[session[s].connection_id] = s )
              => session[s].connection_id \in SentIds(fanout)
    ]_vars

\* C15 (FanoutSpec): in send_room_message, send_personal_message and
\* broadcast_message a failed send_text never ends the call with an
\* exception (only the dict iterator of a broadcast does, when
\* active_connections changed size), and after a failed send_text the loop
\* goes on: it sends to a further recipient or, with the registry as it was
\* when the loop began, it returns normally with every recipient sent to and
\* the calling session back in its receive loop.
C15_BestEffortFanout ==
  [][ /\ (fanout.pc = "sending" /\ fanout'.raised)
         => /\ fanout.kind = "broadcast"
            /\ Cardinality(DOMAIN active_connections) # fanout.size
      /\ ( /\ FanoutStep /\ ~fanout.interfered
           /\ fanout.sent # <<>> /\ ~fanout.sent[Len(fanout.sent)].ok )
         => IF fanout'.pc = "idle"
            THEN /\ ~fanout'.raised
                 /\ SentIds(fanout) = Targets(fanout)
                 /\ fanout.task \in Sessions => session'[fanout.task].pc = "open"
            ELSE Len(fanout'.sent) = Len(fanout.sent) + 1
    ]_vars

\* C15 witness: the first send_text of a fan-out failed and the loop has
\* sent to the second recipient.
C15_Witness ==
  /\ fanout.pc = "sending" /\ ~fanout.interfered
  /\ Len(fanout.sent) = 2
  /\ ~fanout.sent[1].ok /\ fanout.sent[2].ok
  /\ fanout.sent[1].connection_id # fanout.sent[2].connection_id

\* C16 (FanoutSpec): when a fan-out returns, every connection id whose
\* send_text failed during it is in none of the three tables.
C16_FailedSendUnregisters ==
  [][ FanoutEnds
      => \A k \in 1..Len(fanout.sent) :
           ~fanout.sent[k].ok
             => LET c == fanout.sent[k].connection_id
                IN  /\ c \notin DOMAIN active_connections'
                    /\ \A u \in DOMAIN user_connections' : ~Contains(user_connections'[u], c)
                    /\ \A r \in DOMAIN room_connections' : ~Contains(room_connections'[r], c)
    ]_vars

\* C17 (RedeemSpec): a mark_ticket_used call that has updated its ticket to
\* used returns success, whether or not its scan_history insert succeeds,
\* and the ticket stays used.
C17_ScanInsertFailureStillSucceeds ==
  [][ \A p \in Procs :
        (call[p].pc = "mark_scan" /\ call'[p].pc = "idle")
          => /\ response'.op = "redeem" /\ response'.result = "success"
             /\ tickets'[call[p].ticket_id].status = "used"
    ]_vars

\* C18 (RedeemSpec): the update step of a mark_ticket_used call sets its
\* ticket's status to used and stamps used_at with the current time and
\* scanned_by and scan_location from the request, touching no other ticket;
\* the step that returns success appends exactly one scan record, for that
\* ticket and the request's agent, with the ticket used; and success is
\* returned by no other step, so only by a call that made the update.
C18_RedeemStamps ==
  [][ \A p \in Procs :
        /\ (call[p].pc = "mark_update" /\ call'[p].pc = "mark_scan")
           => LET i == call[p].ticket_id
              IN  /\ tickets'[i].status = "used"
                  /\ tickets'[i].used_at = clock' /\ clock' > clock
                  /\ tickets'[i].scanned_by = call[p].scanned_by
                  /\ tickets'[i].scan_location = call[p].location
                  /\ tickets'[i].qr_code = tickets[i].qr_code
                  /\ tickets'[i].payment_id = tickets[i].payment_id
                  /\ \A k \in 1..Len(tickets) : k # i => tickets'[k] = tickets[k]
        /\ (call[p].op = "redeem" /\ call'[p].pc = "idle" /\ response'.result = "success")
           => /\ call[p].pc = "mark_scan"
              /\ tickets[call[p].ticket_id].status = "used"
              /\ Len(scan_history') = Len(scan_history) + 1
              /\ SubSeq(scan_history', 1, Len(scan_history)) = scan_history
              /\ scan_history'[Len(scan_history')].ticket_id = call[p].ticket_id
              /\ scan_history'[Len(scan_history')].scanned_by = call[p].scanned_by
        /\ (call[p].pc = "idle" /\ call'[p].pc = "mark_scan") => FALSE
    ]_vars

\* C18 witness: agent a2 redeemed a ticket: the ticket is used and stamped
\* with a2 and the gate, and the one scan record names the ticket and a2.
C18_Witness ==
  /\ response.op = "redeem" /\ response.result = "success"
  /\ tickets[response.ticket_id].status = "used"
  /\ tickets[response.ticket_id].scanned_by = "a2"
  /\ tickets[response.ticket_id].scan_location = "gate"
  /\ tickets[response.ticket_id].used_at = 1
  /\ Len(scan_history) = 1
  /\ scan_history[1].ticket_id = response.ticket_id
  /\ scan_history[1].scanned_by = "a2"

\* The preconditions of Issue in the order of the specification, and which
\* of them request d of user u violates in the current database.
IssueErrorOrder ==
  << "PAYMENT_NOT_FOUND", "PAYMENT_NOT_SUCCESSFUL", "PAYMENT_MISMATCH",
     "TICKET_ALREADY_EXISTS", "EVENT_NOT_FOUND", "TIER_NOT_FOUND" >>

TierViolated(tier_id, event_id) ==
  tier_id \notin DOMAIN event_tiers \/ event_tiers[tier_id].event_id # event_id

ViolatedPreconditions(d, u) ==
  LET known == d.payment_id \in DOMAIN payments
  IN  {k \in 1..6 :
         \/ k = 1 /\ ~known
         \/ k = 2 /\ known /\ payments[d.payment_id].status # "successful"
         \/ k = 3 /\ known /\ payments[d.payment_id].user_id # u
         \/ k = 4 /\ \E i \in 1..Len(tickets) : tickets[i].payment_id = d.payment_id
         \/ k = 5 /\ d.event_id \notin DOMAIN events
         \/ k = 6 /\ TierViolated(d.tier_id, d.event_id)}

Earliest(S) == CHOOSE k \in S : \A m \in S : k <= m

\* C19 (SequentialIssueSpec): in every reachable database and for every request, the
\* checks of issue_ticket before the tier lookup answer with the error of the
\* earliest violated precondition among payment missing, payment not
\* successful, payment of another user, ticket exists, event missing, and
\* let the call go on only when none of these is violated; the tier lookup
\* finds no row exactly when the tier is missing or belongs to another
\* event.  Accordingly a call at the tier lookup has a successful payment
\* of its user and an existing event, a call past it has a tier of its
\* event, and an error returned for a payment is no later in the order than
\* what that payment violates.
C19_FirstFailureWins ==
  /\ \A pid \in PaymentIds, e \in EventIds, u \in UserIds :
       LET V == ViolatedPreconditions(
                  [payment_id |-> pid, event_id |-> e, tier_id |-> None], u) \cap 1..5
           expected == IF V # {} THEN IssueErrorOrder[Earliest(V)] ELSE "continue"
       IN  \A t \in TierIds :
             IssueOutcome([payment_id |-> pid, event_id |-> e, tier_id |-> t], u) = expected
  /\ \A t \in TierIds, e \in EventIds :
       (TierResult(t, e) = {}) <=> TierViolated(t, e)
  /\ \A p \in Procs :
       LET c == call[p]
           d == [payment_id |-> c.payment_id, event_id |-> c.event_id,
                 tier_id |-> c.tier_id]
       IN  /\ c.pc \in {"issue_tier", "issue_insert", "issue_sold"}
              => ViolatedPreconditions(d, c.user_id) \cap {1, 2, 3, 5} = {}
           /\ c.pc \in {"issue_insert", "issue_sold"}
              => ~TierViolated(c.tier_id, c.event_id)
  /\ response.op = "issue"
     => LET known == response.key \in DOMAIN payments
            paid == known /\ payments[response.key].status = "successful"
        IN  /\ response.result = IssueErrorOrder[1] <=> ~known
            /\ response.result = IssueErrorOrder[2] <=> known /\ ~paid
            /\ response.result = IssueErrorOrder[4]
                 => TicketsOfPayment(response.key) # {}

\* C19 witness: a request of another user for a payment that already has a
\* ticket was answered PAYMENT_MISMATCH, the earlier of its two violations.
C19_Witness ==
  /\ response.op = "issue" /\ response.result = "PAYMENT_MISMATCH"
  /\ TicketsOfPayment(response.key) # {}

\* The results of Verify for a ticket that was found, in the priority of the
\* specification, and the conditions of ticket i that call for each.
VerifyOrder ==
  << "Ticket already used", "Ticket cancelled", "Event is not active", "Ticket is valid" >>

VerifyConditions(i) ==
  {k \in 1..4 :
     \/ k = 1 /\ tickets[i].status = "used"
     \/ k = 2 /\ tickets[i].status = "cancelled"
     \/ k = 3 /\ events[tickets[i].event_id].status # "published"
     \/ k = 4}

ExpectedVerify(i) == VerifyOrder[Earliest(VerifyConditions(i))]

\* Ticket i carries the credential code, as QR code or as backup code.
Carries(i, code) == tickets[i].qr_code = code \/ tickets[i].backup_code = code

C21_BackupCodeAfterQrRedeem ==
  [][ \A d \in DoorMarkData :
        ( /\ MarkTicketUsed("w1", d)
          /\ d.qr_code \in BackupCodes
          /\ TicketsByBackup(d.qr_code) # {}
          /\ \A i \in TicketsByBackup(d.qr_code) :
               /\ tickets[i].status = "used"
               /\ redeemed_ok[i] >= 1
               /\ Cardinality(ScansOf(i)) = 1 )
        => /\ response'.result = "TICKET_NOT_ACTIVE"
           /\ response'.ticket_id \in TicketsByBackup(d.qr_code)
           /\ scan_history' = scan_history
    ]_vars

\* C22 (DoorSpec): a mark_ticket_used call for an active ticket whose event
\* is not published returns at once with a failure that is neither the
\* no-match outcome (TICKET_NOT_FOUND) nor the already-used outcome
\* (TICKET_NOT_ACTIVE), and no ticket of an unpublished event is used.
C22_RedeemTellsCausesApart ==
  [][ /\ \A d \in DoorMarkData :
           ( /\ MarkTicketUsed("w1", d)
             /\ TicketsByQr(d.qr_code) # {}
             /\ \A i \in TicketsByQr(d.qr_code) :
                  /\ tickets[i].status = "active"
                  /\ events[tickets[i].event_id].status # "published" )
           => /\ call'["w1"].pc = "idle"
              /\ response'.op = "redeem"
              /\ response'.result \notin {"success", "TICKET_NOT_FOUND", "TICKET_NOT_ACTIVE"}
      /\ \A i \in TicketIds :
           events[tickets[i].event_id].status # "published"
             => tickets'[i].status = tickets[i].status
    ]_vars

\* C23 (SequentialIssueSpec): an issue_ticket call that returns an error has
\* inserted no ticket, and whenever no call is running every tier's sold
\* count is the number of its tickets (the insert and the sold-count update
\* take effect together or not at all).
C23_FailedIssueChangesNothing ==
  [][ /\ ( /\ call["w1"].op = "issue" /\ call'["w1"].pc = "idle"
           /\ response'.result # "success" )
         => call["w1"].ticket_id \notin DOMAIN tickets'
      /\ call'["w1"].pc = "idle"
         => \A t \in DOMAIN event_tiers' :
              Cardinality({i \in DOMAIN tickets' : tickets'[i].tier_id = t})
                = event_tiers'[t].sold
    ]_vars

\* C24 (FanoutSpec): a send_room_message, send_personal_message or
\* broadcast_message call, whatever connect, disconnect, join_room and
\* leave_room calls run between its send_text calls, returns without an
\* exception and has then sent to every connection id that was a recipient
\* from its first to its last step.
C24_InterleavedFanoutComplete ==
  [][ FanoutEnds
      => /\ ~fanout'.raised
         /\ fanout.stable \subseteq SentIds(fanout)
    ]_vars

\* The connection id c is in none of the three tables.
Unregistered(c) ==
  /\ c \notin DOMAIN active_connections
  /\ \A u \in DOMAIN user_connections : ~Contains(user_connections[u], c)
  /\ \A r \in DOMAIN room_connections : ~Contains(room_connections[r], c)

\* C25 (SessionEndSpec): whenever a session has ended (its client went away
\* or its handler raised), eventually its connection id is in neither
\* active_connections nor any list of user_connections nor any room, and no
\* room is empty.
C25_EndedSessionIsRemoved ==
  \A s \in Sessions, c \in ConnectionIds :
    (session[s].pc = "ending" /\ session[s].connection_id = c)
      ~> (Unregistered(c) /\ \A r \in DOMAIN room_connections : room_connections[r] # <<>>)

\* C26 (RegistrySpec): when a session ends while another session is
\* registered (active_connections maps that session's connection id to its
\* websocket), the other session is registered afterwards as before: same
\* table entry, same user-index entry, same rooms.
C26_SessionEndSparesOthers ==
  [][ \A s \in Sessions, o \in Sessions :
        ( /\ s # o
          /\ session[s].pc = "open" /\ session'[s].pc = "closed"
          /\ session[o].pc # "closed"
          /\ session[o].connection_id \in DOMAIN active_connections
          /\ active_connections[session[o].connection_id] = o )
        => LET c == session[o].connection_id
               u == session[o].user_id
           IN  /\ c \in DOMAIN active_connections'
               /\ active_connections'[c] = o
               /\ (u \in DOMAIN user_connections /\ Contains(user_connections[u], c))
                    => (u \in DOMAIN user_connections' /\ Contains(user_connections'[u], c))
               /\ \A r \in DOMAIN room_connections :
                    Contains(room_connections[r], c)
                      => (r \in DOMAIN room_connections' /\ Contains(room_connections'[r], c))
    ]_vars

\* C27 (SequentialIssueSpec): no two tickets carry the same QR code and no
\* two active tickets carry the same backup code (so a lookup by backup code
\* matches at most one active ticket).
C27_CredentialsUnique ==
  \A i \in TicketIds, j \in TicketIds :
    i # j => /\ tickets[i].qr_code # tickets[j].qr_code
             /\ (tickets[i].status = "active" /\ tickets[j].status = "active")
                  => tickets[i].backup_code # tickets[j].backup_code

\* The payment of ticket t exists, is successful and belongs to the user
\* the ticket was issued to.
PaidBy(t) ==
  /\ t.payment_id \in DOMAIN payments
  /\ payments[t.payment_id].status = "successful"
  /\ payments[t.payment_id].user_id = t.user_id

\* C28 (IssueSpec): every ticket is created by the insert of an issue_ticket
\* call, in status active, for a payment that exists, is successful, belongs
\* to the requesting user and has, when the ticket is created, no ticket
\* yet; and every ticket in the table has such a payment.
C28_TicketsOnlyForOwnPaidPayment ==
  [][ /\ tickets' # tickets
         => /\ Len(tickets') = Len(tickets) + 1
            /\ SubSeq(tickets', 1, Len(tickets)) = tickets
            /\ \E p \in Procs :
                 /\ call[p].op = "issue" /\ call'[p].ticket_id = Len(tickets')
                 /\ tickets'[Len(tickets')].user_id = call[p].user_id
                 /\ tickets'[Len(tickets')].payment_id = call[p].payment_id
            /\ tickets'[Len(tickets')].status = "active"
            /\ PaidBy(tickets'[Len(tickets')])
            /\ TicketsOfPayment(tickets'[Len(tickets')].payment_id) = {}
      /\ \A i \in TicketIds : PaidBy(tickets[i])
    ]_vars

\* C29 (RegistrySpec): in every reachable state every list of
\* user_connections is non-empty, lists no connection id twice and lists
\* only ids that are in active_connections.
C29_UserIndexWellFormed ==
  \A u \in DOMAIN user_connections :
    /\ user_connections[u] # <<>>
    /\ \A c \in ConnectionIds : Occurrences(user_connections[u], c) <= 1
    /\ \A k \in 1..Len(user_connections[u]) :
         user_connections[u][k] \in DOMAIN active_connections

\* The number of calls for key admitted with a timestamp in lo..hi.
RECURSIVE AdmittedIn(_, _, _)
AdmittedIn(key, lo, hi) ==
  IF hi < lo THEN 0
  ELSE (IF hi \in 0..MaxTime THEN admitted[key][hi] ELSE 0) + AdmittedIn(key, lo, hi - 1)

\* In every window of the configured length the calls admitted for a key
\* are at most the configured limit.
WithinLimit ==
  \A key \in Keys :
    LET config == get_rate_limit_config(key[2])
    IN  \A start \in (0 - config.window)..MaxTime :
          AdmittedIn(key, start + 1, start + config.window) <= config.requests

\* C30 (RateLimitSpec): with the memory store in use, for every key the
\* calls admitted with timestamps in any window of the configured length
\* are at most the configured limit; the list of a key grows only by the
\* timestamp of a call that is admitted (a rejected call records nothing);
\* and requests_remaining is never negative.
C30_MemoryStoreLimit ==
  /\ [](WithinLimit /\ limit_info.requests_remaining >= 0)
  /\ [][ \A key \in DOMAIN memory_store' :
           LET before == IF key \in DOMAIN memory_store THEN memory_store[key] ELSE <<>>
           IN  Len(memory_store'[key]) > Len(before)
                 => /\ ~limit_info'.limited /\ limit_info'.key = key
                    /\ admitted' # admitted
                    /\ Len(memory_store'[key]) = Len(before) + 1
       ]_vars

====
